---- MODULE Spec2Model ----
(***************************************************************************)
(* Resumable harvest pipeline of amz-scraper: the order-id harvest         *)
(* (collectOrderIdsForYear), the order-detail harvest                      *)
(* (collectOrderDetailsForYear), the two ledger files they checkpoint to,  *)
(* and a process that can be killed at any step and started again.         *)
(***************************************************************************)
EXTENDS Integers, Sequences, FiniteSets, TLC

VARIABLES
    listing,          \* the storefront: [total, shape, oddOrder, flaw, drift]; fixed during a behaviour
    idsFile,          \* <downloadDir>/<year>-order-ids.json: NoFile (absent) or the JSON document
    detailsFile,      \* <downloadDir>/<year>-order-details.json: sequence of records (<<>> when absent)
    pc,               \* position of the process
    runs,             \* number of process starts so far
    shown,            \* document displayed by browser.mainPage
    pending,          \* navigation started by a goto that was not awaited: its target, its
                      \* rejection left unobserved, or NoView
    yearOrders,       \* collectOrderIdsForYear: local yearOrders
    startPage,        \* collectOrderIdsForYear: local startPage
    yearTotalOrders,  \* collectOrderIdsForYear: local yearTotalOrders
    yearTotalPages,   \* collectOrderIdsForYear: local yearTotalPages
    uniqueOrderIds,   \* collectOrderIdsForYear: local uniqueOrderIds (insertion order of the Set)
    orderPage,        \* collectOrderIdsForYear: loop variable
    pageOrderIds,     \* collectOrderIdsForYear: ids collected from the page in flight
    yearOrderIds,     \* run(): ledger returned by collectOrderIdsForYear, NullLedger before
    orderDetails,     \* collectOrderDetailsForYear: local orderDetails
    scrapedOrderIds,  \* collectOrderDetailsForYear: local scrapedOrderIds
    orderIdx,         \* collectOrderDetailsForYear: position of the for-of loop in yearOrderIds.orderIds
    order,            \* collectOrderDetailsForYear: record of the order in flight, NoOrder outside
    readLedger,       \* history: the ledger readYearOrderIdsFromFile returned in this run
    navLog,           \* history: listing page indices navigated to in this run, in order
    idWrites,         \* history: number of writeYearOrderIdsToFile calls in this run
    detailNavs,       \* history: order ids whose summary or invoice view was navigated to in this run
    extracted,        \* history: order ids whose getOrderDetails finished (any run)
    downloaded,       \* history: order ids whose downloadInvoices finished (any run)
    addLog,           \* history: ids in the order in which they first appeared in detailsFile
    prevEnd,          \* history: how the previous process ended, kept while the id harvest runs
    persistedPages,   \* history: listing page indices whose ids a write of the year ledger stored (any run)
    failure,          \* the error that ended the process, "none" while it runs or when it was killed
    readFrom,         \* history: the document the record in flight was read from
    delayed,          \* history: randomSleep ran since the last listing navigation of this run
    browser,          \* the browser session of main(): "none", "open" or "closed"
    signedIn,         \* the account session kept in the persistent browser profile
    loggedIn,         \* login() / waitForManualLogin(): local loggedIn, FALSE before a check
    exText,           \* extractInt harness: the argument
    exInt,            \* extractInt harness: the result
    pdText,           \* parseDEDateToISO harness: the argument
    pdIso,            \* parseDEDateToISO harness: the result
    apExisting,       \* appendUniqueOrder harness: the list before the calls
    apOrder,          \* appendUniqueOrder harness: the candidate of the last call
    apOnce,           \* appendUniqueOrder harness: the list after one call
    apTwice           \* appendUniqueOrder harness: the list after a second call with the same id

envVars    == <<listing>>
diskVars   == <<idsFile, detailsFile>>
procVars   == <<pc, runs>>
pageVars   == <<shown, pending>>
idVars     == <<yearOrders, startPage, yearTotalOrders, yearTotalPages, uniqueOrderIds,
                orderPage, pageOrderIds, yearOrderIds>>
detVars    == <<orderDetails, scrapedOrderIds, orderIdx, order>>
idHist     == <<readLedger, navLog, idWrites, delayed>>
detHist    == <<detailNavs, extracted, downloaded, addLog, readFrom>>
errVars    == <<failure>>
apVars     == <<apExisting, apOrder, apOnce, apTwice>>
exVars     == <<exText, exInt>>
pdVars     == <<pdText, pdIso>>
harnessVars == <<apVars, exVars, pdVars>>
authVars   == <<signedIn, loggedIn>>
vars       == <<envVars, diskVars, procVars, pageVars, idVars, detVars, idHist, detHist,
                prevEnd, persistedPages, errVars, harnessVars, authVars, browser>>

-----------------------------------------------------------------------------
(* Bounds of the model *)

MaxTotal == 21      \* largest server-reported order count of a year
MaxLag   == 1       \* orders by which the displayed document may trail the loop
MaxRuns  == 3       \* process starts per behaviour

(* Values *)

NaN      == 0 - 1      \* the JavaScript number NaN
JsonNull == 0 - 2      \* null where a JSON document holds a number
NullText == <<"null">> \* null where the page-query capability returns a string

InvoiceYear == 2024 \* config.invoiceYear

-----------------------------------------------------------------------------
(* Sequences and sets *)

Range(s) == {s[i] : i \in DOMAIN s}

NoDuplicates(s) == Cardinality(Range(s)) = Len(s)

Min(a, b) == IF a < b THEN a ELSE b

-----------------------------------------------------------------------------
(* Text: a string is a sequence of one-character strings *)

PageSize == 10      \* orders per listing page, hard-coded in the harvest

DigitChars == <<"0", "1", "2", "3", "4", "5", "6", "7", "8", "9">>

IsDigit(c) == \E d \in DOMAIN DigitChars : DigitChars[d] = c

DigitValue(c) == (CHOOSE d \in DOMAIN DigitChars : DigitChars[d] = c) - 1

RECURSIVE Digits(_)
Digits(n) == IF n < 10 THEN <<DigitChars[n + 1]>>
             ELSE Append(Digits(n \div 10), DigitChars[(n % 10) + 1])

\* parseInt(cleaned, RADIX_DECIMAL) on a string of digits: NaN when it is empty
RECURSIVE parseInt(_)
parseInt(s) == IF s = <<>> THEN NaN
               ELSE IF Len(s) = 1 THEN DigitValue(s[1])
               ELSE 10 * parseInt(SubSeq(s, 1, Len(s) - 1)) + DigitValue(s[Len(s)])

\* the digits a text starts with
RECURSIVE LeadingDigits(_)
LeadingDigits(s) == IF s = <<>> \/ ~IsDigit(Head(s)) THEN <<>>
                    ELSE <<Head(s)>> \o LeadingDigits(Tail(s))

\* the text parsed as it is, the non-digits left in: parseInt stops at the first
extractIntNoStrip(text) == IF text = NullText \/ text = <<>> THEN NaN
                           ELSE parseInt(LeadingDigits(text))

\* extractInt: !text covers null and the empty string; \D is every non-digit
extractInt(text) == IF text = NullText \/ text = <<>> THEN NaN
                    ELSE parseInt(SelectSeq(text, IsDigit))

IsSpace(c) == c \in {" ", "\n"}

RECURSIVE trimStart(_)
trimStart(s) == IF s # <<>> /\ IsSpace(Head(s)) THEN trimStart(Tail(s)) ELSE s

RECURSIVE trimEnd(_)
trimEnd(s) == IF s # <<>> /\ IsSpace(s[Len(s)]) THEN trimEnd(SubSeq(s, 1, Len(s) - 1)) ELSE s

\* String.prototype.trim
trim(s) == trimEnd(trimStart(s))

\* text.replaceAll("\n", ", ")
replaceAllNewlines(s) == [i \in DOMAIN s |-> IF s[i] = "\n" THEN ", " ELSE s[i]]

\* the tokens that [A-Z0-9]+ matches
CodeTokens == {"B0ASIN", "A1SELLER"}

\* getRegexGroupOrEmpty(text, /<key>([A-Z0-9]+)/, 1): the code after the first
\* key that has one; "" for null, for "" and when nothing matches
getRegexGroupOrEmpty(text, key) ==
    IF text = NullText THEN <<>>
    ELSE LET hits == {i \in 1 .. Len(text) - 1 : text[i] = key /\ text[i + 1] \in CodeTokens}
         IN  IF hits = {} THEN <<>>
             ELSE <<text[(CHOOSE i \in hits : \A j \in hits : i <= j) + 1]>>

\* the page count rounded down instead of up
FloorPages(n) == IF n = NaN THEN NaN ELSE n \div PageSize

\* Math.ceil(yearTotalOrders / 10)
CeilPages(n) == IF n = NaN THEN NaN ELSE (n + PageSize - 1) \div PageSize

\* orderPage < yearTotalPages (a comparison with NaN is false)
LessThan(a, b) == IF b = NaN THEN FALSE ELSE a < b

-----------------------------------------------------------------------------
(* model/AmzScYearOrderIds and its JSON document *)

\* null where the code holds a ledger or none, and the absent ledger file
NullLedger == [year |-> 0, totalOrders |-> NaN, orderIds |-> <<>>]
NoFile     == NullLedger

\* the total taken from the ids collected so far instead of the server's count
AmzScYearOrderIdsCounted(year, totalOrders, orderIds) ==
    [year |-> year, totalOrders |-> Len(orderIds), orderIds |-> orderIds]

\* new AmzScYearOrderIds(year, totalOrders, orderIds)
AmzScYearOrderIds(year, totalOrders, orderIds) ==
    [year |-> year, totalOrders |-> totalOrders, orderIds |-> orderIds]

\* isComplete comparing the count with the array instead of its length
isCompleteArray(l) == FALSE

\* get isComplete: totalOrders === orderIds.length
isComplete(l) == l.totalOrders = Len(l.orderIds)

\* the resume page taken from the total of the year, not from the ids recorded
estimatedLastPageOfYear(l) == IF l.totalOrders < 0 THEN 0 ELSE l.totalOrders \div PageSize

\* the resume page taken as the 1-based page number
estimatedLastPageOneBased(l) == Len(l.orderIds) \div PageSize + 1

\* get estimatedLastPage: Math.floor(orderIds.length / 10)
estimatedLastPage(l) == Len(l.orderIds) \div PageSize

\* JSON.stringify of a ledger: a NaN number is written as null
LedgerToJson(l) == [l EXCEPT !.totalOrders = IF @ = NaN THEN JsonNull ELSE @]

\* a write that never reaches the file
writeYearOrderIdsNowhere(old, l) == old

\* writeYearOrderIdsToFile: the new content of the file (the old one is replaced)
writeYearOrderIdsToFile(old, l) == LedgerToJson(l)

\* readYearOrderIdsFromFile: null when the file is absent, else the parsed document
readYearOrderIdsFromFile(file) ==
    IF file = NoFile THEN NullLedger
    ELSE AmzScYearOrderIds(file.year, file.totalOrders, file.orderIds)

\* the stored array ignored
readYearOrderDetailsFresh(file) == <<>>

\* readYearOrderDetailsFromFile: [] when the file is absent, else the parsed array
readYearOrderDetailsFromFile(file) == file

\* the array appended to the file instead of replacing it
writeYearOrderDetailsAppending(old, orders) == old \o orders

\* a write that never reaches the file
writeYearOrderDetailsNowhere(old, orders) == old

\* writeYearOrderDetailsToFile: the new content of the file (the old one is replaced)
writeYearOrderDetailsToFile(old, orders) == orders

-----------------------------------------------------------------------------
(* The storefront *)

Shapes == {"exact", "overlap", "blankId", "blankPage"}

\* ceil(total / 10): the number of listing pages the storefront serves
ListingPages(l) == (l.total + PageSize - 1) \div PageSize

\* the order count the storefront reports to the run-th process of a behaviour:
\* it changes by l.drift between two starts (an order placed, orders that the
\* count no longer includes)
ReportedTotal(l, run) == l.total + l.drift * (run - 1)

\* text of span.num-orders, for instance "21 Best."
TotalText(l, run) == Digits(ReportedTotal(l, run)) \o <<" ", "B", "e", "s", "t", ".">>

\* ids first .. last as a sequence
IdsFromTo(first, last) == [i \in 1 .. (IF last < first THEN 0 ELSE last - first + 1) |-> first + i - 1]

\* The text of .yohtmlc-order-id of every .order-card of listing page p, in page
\* order; 0 stands for a card whose id text is empty.
\*   exact:   page p shows orders 10p+1 .. 10p+10
\*   overlap: every page after the first starts with the last order of the page before
\*   blankId: as exact, but the first card of page 0 has an empty id text
\*   blankPage: as exact, but every card of the last page has an empty id text
PageCards(l, p) ==
    LET first == p * PageSize + 1
        last  == Min(p * PageSize + PageSize, l.total)
    IN  IF p >= ListingPages(l) THEN <<>>
        ELSE IF l.shape = "overlap" /\ p > 0
             THEN IdsFromTo(first - 1, IF last = l.total THEN last ELSE last - 1)
        ELSE IF l.shape = "blankId" /\ p = 0
             THEN <<0>> \o IdsFromTo(first + 1, last)
        ELSE IF l.shape = "blankPage" /\ p = ListingPages(l) - 1
             THEN [i \in 1 .. last - first + 1 |-> 0]
        ELSE IdsFromTo(first, last)

(* The summary view of an order. A text is a sequence of tokens: a white-space
   character, a digit, or a run of other characters. *)

\* no element matches the selector: the lookup ends with a TimeoutError
NoElement == <<"no element">>

\* the elements getOrderDetails looks up
Elements == {"paymentInstrument", "orderDate", "totalAmount", "shippingName",
             "shippingAddress", "itemTitle", "orderedMerchant", "quantity", "unitPrice"}

\* what can be odd about one order of the year: an element is absent, its text
\* is empty or only white space, the order has no item block, or the date is
\* written in a way new Date cannot parse
NoFlaw == <<"none", "none">>
Flaws  == (Elements \X {"absent", "empty", "blank"})
              \cup {<<"shipments", "absent">>, <<"orderDate", "unparsable">>}

ParsableDate   == <<"March", " ", "12,", " ", "2024">>
UnparsableDate == <<"12.", " ", "Dezember", " ", "2024">>

\* the text of element e on the summary view of a regular order
RegularText(e) ==
    CASE e = "paymentInstrument" -> <<"\n", "Visa", " ">>
      [] e = "orderDate"         -> <<" ">> \o ParsableDate \o <<" ">>
      [] e = "totalAmount"       -> <<"EUR", " ", "12,99">>
      [] e = "shippingName"      -> <<"Max", " ", "Muster", "\n">>
      [] e = "shippingAddress"   -> <<"Weg", " ", "1", "\n", "Berlin">>
      [] e = "itemTitle"         -> <<" ", "Book", " ">>
      [] e = "orderedMerchant"   -> <<"Shop">>
      [] e = "quantity"          -> <<" ", "2">>
      [] e = "unitPrice"         -> <<"EUR", " ", "6,49">>

\* the href attribute of the link elements
RegularHref(e) ==
    CASE e = "itemTitle"       -> <<"/dp/", "B0ASIN", "/ref">>
      [] e = "orderedMerchant" -> <<"/sp?", "seller=", "A1SELLER">>
      [] OTHER                 -> NullText

\* the text of element e on the summary view of order o
ElementText(l, o, e) ==
    IF o = l.oddOrder /\ l.flaw[1] = e
    THEN CASE l.flaw[2] = "absent"     -> NoElement
           [] l.flaw[2] = "empty"      -> <<>>
           [] l.flaw[2] = "blank"      -> <<" ", "\n">>
           [] l.flaw[2] = "unparsable" -> <<" ">> \o UnparsableDate
    ELSE RegularText(e)

ElementHref(l, o, e) ==
    IF o = l.oddOrder /\ l.flaw = <<e, "absent">> THEN NoElement ELSE RegularHref(e)

\* The order date shown on the summary view of order o: the storefront's locale
\* decides whether new Date(text) can parse it
DateText(l, o) == ElementText(l, o, "orderDate")

\* oddOrder is the order the flaw is about, 0 for none; a year with an odd
\* order has 3 orders on one page, a year with a blank page at most 12, and
\* the reported count drifts for a year of 12 orders
Listings == {l \in [total : {0, 3, 12, MaxTotal}, shape : Shapes, oddOrder : {0, 2},
                    flaw : Flaws \cup {NoFlaw}, drift : {0, 1, 0 - 2}] :
                 /\ l.oddOrder = 0 <=> l.flaw = NoFlaw
                 /\ l.oddOrder # 0 => l.shape = "exact" /\ l.total = 3 /\ l.drift = 0
                 /\ l.shape = "blankPage" => l.total \in {3, 12}
                 /\ l.total = 0 => l.shape = "exact"
                 /\ l.drift # 0 => l.shape = "exact" /\ l.total = 12}

(* browser.mainPage *)

Blank          == <<"blank", 0>>
NoView         == <<"none", 0>>
ListingView(p) == <<"listing", p>>
SummaryView(o) == <<"summary", o>>
InvoiceView(o) == <<"invoice", o>>

\* the promise of a goto nobody awaits, rejected
Rejected(view) == <<"rejected", view[2]>>

\* what a lookup of element e finds in the document displayed: #orderDetails
\* and its elements exist on a summary view only
Lookup(l, view, e) ==
    IF view[1] = "summary" THEN ElementText(l, view[2], e) ELSE NoElement

LookupHref(l, view, e) ==
    IF view[1] = "summary" THEN ElementHref(l, view[2], e) ELSE NoElement

(* The [href] elements of a document: a link is its text, its url and the
   order the url names (0 for none) *)

NavLink     == [name |-> <<"Your", " ", "Account">>, url |-> <<"/account">>, order |-> 0]
ItemLink    == [name |-> <<" ", "Book", " ">>, url |-> <<"/dp/", "B0ASIN", "/ref">>, order |-> 0]
PdfLink(o)  == [name |-> <<"Invoice", " ", "1">>, url |-> <<"/documents/", "invoice", ".pdf">>,
                order |-> o]

\* the url ends with the PDF extension
EndsWithPdf(url) == url # <<>> /\ url[Len(url)] = ".pdf"

\* the [href] elements of the document displayed, in document order
PageLinks(l, view) ==
    CASE view[1] = "invoice" -> <<NavLink, PdfLink(view[2])>>
      [] view[1] = "summary" -> <<NavLink, ItemLink>>
      [] view[1] = "listing" -> <<NavLink>>
      [] OTHER               -> <<>>

LinkedTotal == 3    \* largest year whose records carry the links read

\* The links field is carried for the years of up to LinkedTotal orders that
\* show every order without a flaw; the records of the other years carry an
\* empty list.
LinksModelled(l) == l.total <= LinkedTotal /\ l.shape = "exact" /\ l.flaw = NoFlaw

\* the number of [data-component='shipments'] .a-fixed-left-grid blocks displayed
ItemBlocks(l, view) ==
    IF view[1] = "summary" /\ ~(view[2] = l.oddOrder /\ l.flaw = <<"shipments", "absent">>)
    THEN 1 ELSE 0


-----------------------------------------------------------------------------
(* State after construction: an empty download directory, a fresh process *)

NoOrder == [id |-> 0, date |-> <<>>, totalAmount |-> <<>>, shippingName |-> <<>>,
            shippingAddress |-> <<>>, paymentInstrument |-> <<>>, orderItems |-> <<>>,
            links |-> <<>>]

InitLocals ==
    /\ yearOrders = NullLedger
    /\ startPage = 0
    /\ yearTotalOrders = NaN
    /\ yearTotalPages = NaN
    /\ uniqueOrderIds = <<>>
    /\ orderPage = 0
    /\ pageOrderIds = <<>>
    /\ yearOrderIds = NullLedger
    /\ orderDetails = <<>>
    /\ scrapedOrderIds = {}
    /\ orderIdx = 0
    /\ order = NoOrder
    /\ readLedger = NullLedger
    /\ navLog = <<>>
    /\ idWrites = 0
    /\ delayed = FALSE
    /\ detailNavs = {}

InitAp ==
    /\ apExisting = <<>>
    /\ apOrder = NoOrder
    /\ apOnce = <<>>
    /\ apTwice = <<>>

InitEx ==
    /\ exText = <<>>
    /\ exInt = NaN

InitPd ==
    /\ pdText = <<>>
    /\ pdIso = NullText

InitHarness == InitAp /\ InitEx /\ InitPd

Init ==
    /\ listing \in Listings
    /\ idsFile = NoFile
    /\ detailsFile = <<>>
    /\ pc = "launch"
    /\ runs = 1
    /\ shown = Blank
    /\ pending = NoView
    /\ InitLocals
    /\ extracted = {}
    /\ downloaded = {}
    /\ addLog = <<>>
    /\ prevEnd = "none"
    /\ persistedPages = {}
    /\ failure = "none"
    /\ readFrom = NoView
    /\ browser = "none"
    /\ signedIn \in BOOLEAN
    /\ loggedIn = FALSE
    /\ InitHarness

\* the locals and the per-run history of a process that is gone or just started
ResetLocals ==
    /\ yearOrders' = NullLedger
    /\ startPage' = 0
    /\ yearTotalOrders' = NaN
    /\ yearTotalPages' = NaN
    /\ uniqueOrderIds' = <<>>
    /\ orderPage' = 0
    /\ pageOrderIds' = <<>>
    /\ yearOrderIds' = NullLedger
    /\ orderDetails' = <<>>
    /\ scrapedOrderIds' = {}
    /\ orderIdx' = 0
    /\ order' = NoOrder
    /\ readLedger' = NullLedger
    /\ navLog' = <<>>
    /\ idWrites' = 0
    /\ delayed' = FALSE
    /\ detailNavs' = {}

-----------------------------------------------------------------------------
(* collectOrderIdsForYear *)

\* Array.from(new Set(s)): the elements of s in order of first occurrence
RECURSIVE ArrayFromSet(_)
ArrayFromSet(s) ==
    IF s = <<>> THEN <<>>
    ELSE LET front == ArrayFromSet(SubSeq(s, 1, Len(s) - 1))
             last  == s[Len(s)]
         IN  IF last \in Range(front) THEN front ELSE Append(front, last)

\* the page pushed onto the array instead of united into the Set
MergePageByPush(ids, page) == ids \o page

\* the Set built from the page first and the ids seen before after it
MergePagePrepending(ids, page) == ArrayFromSet(page \o ids)

\* uniqueOrderIdsSet = new Set([...uniqueOrderIdsSet, ...pageOrderIds]);
\* uniqueOrderIds = Array.from(uniqueOrderIdsSet)
MergePage(ids, page) == ArrayFromSet(ids \o page)

\* collectOrderIdsFromPage: the id text of every card, cards with a falsy text left out
collectOrderIdsFromPage(cards) == SelectSeq(cards, LAMBDA c : c # 0)

\* the harvest started at the first page whatever is stored
StartPageFirst(l) == 0

\* the ids of the stored ledger left behind
StoredIdsNone(l) == <<>>

\* line 57: yearOrders?.orderIds ?? []
StoredIds(l) == IF l = NullLedger THEN <<>> ELSE l.orderIds

\* yearOrders?.estimatedLastPage || 0
StartPageOf(l) == IF l = NullLedger THEN 0 ELSE estimatedLastPage(l)

\* lines 35-44: read the stored ledger; a complete one is returned at once
IdRead ==
    /\ pc = "idRead"
    /\ LET stored == readYearOrderIdsFromFile(idsFile)
       IN  /\ yearOrders' = stored
           /\ readLedger' = stored
           /\ IF stored # NullLedger /\ isComplete(stored)
              THEN /\ yearOrderIds' = stored
                   /\ pc' = "detRead"
                   /\ UNCHANGED startPage
              ELSE /\ startPage' = StartPageOf(stored)
                   /\ pc' = "idGotoFirst"
                   /\ UNCHANGED yearOrderIds
    /\ UNCHANGED <<envVars, diskVars, runs, pageVars, yearTotalOrders, yearTotalPages,
                   uniqueOrderIds, orderPage, pageOrderIds, detVars, navLog, idWrites,
                   delayed, detHist, prevEnd, persistedPages, errVars, harnessVars, authVars, browser>>

\* line 47: await gotoOrderYearPage(invoiceYear, startPage)
IdGotoFirst ==
    /\ pc = "idGotoFirst"
    /\ shown' = ListingView(startPage)
    /\ pending' = NoView
    /\ navLog' = Append(navLog, startPage)
    /\ delayed' = FALSE
    /\ pc' = "idReadTotal"
    /\ UNCHANGED <<envVars, diskVars, runs, idVars, detVars, readLedger, idWrites,
                   detHist, prevEnd, persistedPages, errVars, harnessVars, authVars, browser>>

\* lines 48-61: wait for the order cards, read the server total once
IdReadTotal ==
    /\ pc = "idReadTotal"
    /\ IF PageCards(listing, shown[2]) = <<>>
       THEN /\ pc' = "crashed"
            /\ failure' = "no .order-card"
            /\ browser' = "closed"
            /\ UNCHANGED <<yearTotalOrders, yearTotalPages, uniqueOrderIds, orderPage>>
       ELSE /\ yearTotalOrders' = extractInt(TotalText(listing, runs))
            /\ yearTotalPages' = CeilPages(yearTotalOrders')
            /\ uniqueOrderIds' = StoredIds(yearOrders)
            /\ orderPage' = startPage
            /\ pc' = "idLoop"
            /\ UNCHANGED <<failure, browser>>
    /\ UNCHANGED <<envVars, diskVars, runs, pageVars, yearOrders, startPage, pageOrderIds,
                   yearOrderIds, detVars, idHist, detHist, prevEnd, persistedPages, harnessVars, authVars>>

\* the loop body entered at the navigation, the delay left out
LoopBodyNoDelay(more) == IF more THEN "idGoto" ELSE "idReturn"

\* lines 63-64: the loop body starts with the delay; after the loop comes the return
LoopBody(more) == IF more THEN "idSleep" ELSE "idReturn"

\* line 63: for (orderPage = startPage; orderPage < yearTotalPages; ...)
IdLoop ==
    /\ pc = "idLoop"
    /\ pc' = LoopBody(LessThan(orderPage, yearTotalPages))
    /\ UNCHANGED <<envVars, diskVars, runs, pageVars, idVars, detVars, idHist, detHist,
                   prevEnd, persistedPages, errVars, harnessVars, authVars, browser>>

\* line 64: await randomSleep(800, 2000)
IdSleep ==
    /\ pc = "idSleep"
    /\ delayed' = TRUE
    /\ pc' = "idGoto"
    /\ UNCHANGED <<envVars, diskVars, runs, pageVars, idVars, detVars, readLedger, navLog,
                   idWrites, detHist, prevEnd, persistedPages, errVars, harnessVars, authVars, browser>>

\* line 67: await gotoOrderYearPage(invoiceYear, orderPage)
IdGoto ==
    /\ pc = "idGoto"
    /\ shown' = ListingView(orderPage)
    /\ pending' = NoView
    /\ navLog' = Append(navLog, orderPage)
    /\ delayed' = FALSE
    /\ pc' = "idCollect"
    /\ UNCHANGED <<envVars, diskVars, runs, idVars, detVars, readLedger, idWrites,
                   detHist, prevEnd, persistedPages, errVars, harnessVars, authVars, browser>>

\* lines 68-71: wait for the order cards, collect the ids of the page
IdCollect ==
    /\ pc = "idCollect"
    /\ IF PageCards(listing, shown[2]) = <<>>
       THEN /\ pc' = "crashed"
            /\ failure' = "no .order-card"
            /\ browser' = "closed"
            /\ UNCHANGED pageOrderIds
       ELSE /\ pageOrderIds' = collectOrderIdsFromPage(PageCards(listing, shown[2]))
            /\ pc' = "idMerge"
            /\ UNCHANGED <<failure, browser>>
    /\ UNCHANGED <<envVars, diskVars, runs, pageVars, yearOrders, startPage, yearTotalOrders,
                   yearTotalPages, uniqueOrderIds, orderPage, yearOrderIds, detVars, idHist,
                   detHist, prevEnd, persistedPages, harnessVars, authVars>>

\* lines 73-74: union the page into the Set of ids seen
IdMerge ==
    /\ pc = "idMerge"
    /\ uniqueOrderIds' = MergePage(uniqueOrderIds, pageOrderIds)
    /\ pc' = "idWrite"
    /\ UNCHANGED <<envVars, diskVars, runs, pageVars, yearOrders, startPage, yearTotalOrders,
                   yearTotalPages, orderPage, pageOrderIds, yearOrderIds, detVars, idHist,
                   detHist, prevEnd, persistedPages, errVars, harnessVars, authVars, browser>>

\* lines 79-80 and the loop increment: save progress after the page
IdWrite ==
    /\ pc = "idWrite"
    /\ yearOrders' = AmzScYearOrderIds(InvoiceYear, yearTotalOrders, uniqueOrderIds)
    /\ idsFile' = writeYearOrderIdsToFile(idsFile, yearOrders')
    /\ idWrites' = idWrites + 1
    /\ persistedPages' = persistedPages \cup {orderPage}
    /\ orderPage' = orderPage + 1
    /\ pc' = "idLoop"
    /\ UNCHANGED <<envVars, detailsFile, runs, pageVars, startPage, yearTotalOrders,
                   yearTotalPages, uniqueOrderIds, pageOrderIds, yearOrderIds, detVars,
                   readLedger, navLog, delayed, detHist, prevEnd, errVars, harnessVars,
                   authVars, browser>>

\* lines 83-84: return new AmzScYearOrderIds(...) to run()
IdReturn ==
    /\ pc = "idReturn"
    /\ yearOrderIds' = AmzScYearOrderIds(InvoiceYear, yearTotalOrders, uniqueOrderIds)
    /\ pc' = "detRead"
    /\ UNCHANGED <<envVars, diskVars, runs, pageVars, yearOrders, startPage, yearTotalOrders,
                   yearTotalPages, uniqueOrderIds, orderPage, pageOrderIds, detVars, idHist,
                   detHist, prevEnd, persistedPages, errVars, harnessVars, authVars, browser>>


-----------------------------------------------------------------------------
(* util/amz-sc-model.util *)

\* the presence test comparing whole records instead of ids
appendUniqueOrderByValue(existingOrders, o) ==
    IF \E i \in DOMAIN existingOrders : existingOrders[i] = o
    THEN existingOrders
    ELSE Append(existingOrders, o)

\* the order put in front of the list instead of pushed
appendUniqueOrderAtFront(existingOrders, o) ==
    IF \E i \in DOMAIN existingOrders : existingOrders[i].id = o.id
    THEN existingOrders
    ELSE <<o>> \o existingOrders

\* appendUniqueOrder: push order unless an element of existingOrders has its id
appendUniqueOrder(existingOrders, o) ==
    IF \E i \in DOMAIN existingOrders : existingOrders[i].id = o.id
    THEN existingOrders
    ELSE Append(existingOrders, o)

\* parseDEDateToISO. A date text is a sequence of atoms: a white-space
\* character, "." or ",", a run of digits, or a word. The letter a-umlaut is
\* written <a-umlaut>; the key of line 32 is written as the file stores it,
\* with the two characters U+221A and U+00A7 in the place of that letter.

Punctuation == {".", ","}

\* the runs of digits and their lengths
DigitRuns == ("5" :> 1) @@ ("12" :> 2) @@ ("123" :> 3) @@ ("2024" :> 4)

\* the number of characters of a part that consists of digits only, NaN for
\* every other part
RECURSIVE PartDigits(_)
PartDigits(part) ==
    IF part = <<>> THEN 0
    ELSE IF Head(part) \notin DOMAIN DigitRuns \/ PartDigits(Tail(part)) = NaN THEN NaN
    ELSE DigitRuns[Head(part)] + PartDigits(Tail(part))

\* cleanStr.split(/\s+/) of a trimmed text: the parts between the runs of white
\* space; the empty text gives one empty part
RECURSIVE split(_)
split(s) ==
    IF \A i \in DOMAIN s : ~IsSpace(s[i]) THEN <<s>>
    ELSE LET i == CHOOSE k \in DOMAIN s : IsSpace(s[k]) /\ \A j \in 1 .. k - 1 : ~IsSpace(s[j])
             rest == trimStart(SubSeq(s, i, Len(s)))
         IN  <<SubSeq(s, 1, i - 1)>> \o split(rest)

\* String.prototype.toLowerCase on a word
toLowerCase(a) ==
    CASE a = "M<a-umlaut>rz" -> "m<a-umlaut>rz"
      [] a = "March"         -> "march"
      [] a = "Mai"           -> "mai"
      [] a = "Dezember"      -> "dezember"
      [] OTHER               -> a

\* lines 28-52: the month map, an object literal
monthMap ==
    ("januar" :> "01") @@ ("februar" :> "02") @@ ("m<U+221A><U+00A7>rz" :> "03")
        @@ ("april" :> "04") @@ ("mai" :> "05") @@ ("juni" :> "06") @@ ("juli" :> "07")
        @@ ("august" :> "08") @@ ("september" :> "09") @@ ("oktober" :> "10")
        @@ ("november" :> "11") @@ ("dezember" :> "12")
        @@ ("january" :> "01") @@ ("february" :> "02") @@ ("march" :> "03") @@ ("may" :> "05")
        @@ ("june" :> "06") @@ ("july" :> "07") @@ ("october" :> "10") @@ ("december" :> "12")

\* what an object literal inherits from Object.prototype, as a template
\* literal prints it
Inherited ==
    ("constructor" :> "function Object() { [native code] }") @@ ("__proto__" :> "[object Object]")

Undefined == "undefined"

\* line 54: monthMap[monthName.toLowerCase()], own properties first, then the
\* prototype's; a part of several atoms is no key
monthOf(part) ==
    IF Len(part) # 1 THEN Undefined
    ELSE LET key == toLowerCase(part[1])
         IN  IF key \in DOMAIN monthMap THEN monthMap[key]
             ELSE IF key \in DOMAIN Inherited THEN Inherited[key]
             ELSE Undefined

\* dayStr.padStart(2, "0") of a part of digits
padStart(part) == IF PartDigits(part) = 1 THEN <<"0">> \o part ELSE part

\* parseDEDateToISO, lines 12-65
parseDEDateToISO(dateStr) ==
    LET cleanStr == trim(SelectSeq(dateStr, LAMBDA a : a \notin Punctuation))
        parts    == split(cleanStr)
    IN  IF Len(parts) # 3 THEN NullText
        ELSE LET dayStr    == parts[1]
                 monthName == parts[2]
                 yearStr   == parts[3]
                 month     == monthOf(monthName)
             IN  IF dayStr = <<>> \/ monthName = <<>> \/ yearStr = <<>> THEN NullText
                 ELSE IF \/ month = Undefined
                         \/ PartDigits(yearStr) # 4
                         \/ PartDigits(dayStr) \notin {1, 2}
                      THEN NullText
                 ELSE yearStr \o <<"-", month, "-">> \o padStart(dayStr)

-----------------------------------------------------------------------------
(* collectOrderDetailsForYear *)

\* new Set(orderDetails.map((o) => o.id))
ScrapedIdsOf(details) == {details[i].id : i \in DOMAIN details}

\* a membership test that never matches
AlreadyScrapedNever(scraped, orderId) == FALSE

\* scrapedOrderIds.has(orderId)
AlreadyScraped(scraped, orderId) == orderId \in scraped

\* the ids of the records of list that prior does not hold, in list order
NewIds(prior, list) ==
    LET ids == [i \in DOMAIN list |-> list[i].id]
    IN  SelectSeq(ids, LAMBDA x : x \notin ScrapedIdsOf(prior))

\* the record appended as soon as getOrderDetails returned it
DetailSuccAppendFirst(at) ==
    CASE at = "detSleep"       -> "detGotoSummary"
      [] at = "detGotoSummary" -> "detWaitDetails"
      [] at = "detWaitDetails" -> "detExtract"
      [] at = "detExtract"     -> "detGetLinks"
      [] at = "detGetLinks"    -> "detAppend"
      [] at = "detAppend"      -> "detWrite"
      [] at = "detWrite"       -> "detLoop"
      [] at = "detGotoInvoice" -> "detDownload"
      [] at = "detDownload"    -> "detAppend"

\* the order of the steps of one loop iteration, lines 138-147
DetailSucc(at) ==
    CASE at = "detSleep"       -> "detGotoSummary"
      [] at = "detGotoSummary" -> "detWaitDetails"
      [] at = "detWaitDetails" -> "detExtract"
      [] at = "detExtract"     -> "detGetLinks"
      [] at = "detGetLinks"    -> "detGotoInvoice"
      [] at = "detGotoInvoice" -> "detDownload"
      [] at = "detDownload"    -> "detAppend"
      [] at = "detAppend"      -> "detWrite"
      [] at = "detWrite"       -> "detLoop"

\* getTextOrDefault: the trimmed innerText; defaultValue when the lookup throws
\* (no element within 200 ms), when the text is empty and when it is white space
getTextOrDefault(found, defaultValue) ==
    IF found = NoElement THEN defaultValue
    ELSE IF found = <<>> THEN defaultValue
    ELSE IF trim(found) = <<>> THEN defaultValue
    ELSE trim(found)

\* the lookup without its try/catch: what it found is handed on when no
\* element matched
getTextOrEmptyNoCatch(found) ==
    IF found = NoElement THEN found ELSE getTextOrDefault(found, <<>>)

\* getTextOrEmpty
getTextOrEmpty(found) == getTextOrDefault(found, <<>>)

\* getAttribute("href").catch(() => "")
hrefOrEmpty(found) == IF found = NoElement THEN <<>> ELSE found

\* line 177: (await itemTitleLink.textContent())?.trim() ?? "" has no catch; the
\* lookup of a title link that is not there ends with a TimeoutError
titleThrows(l, view) ==
    ItemBlocks(l, view) > 0 /\ Lookup(l, view, "itemTitle") = NoElement

\* lines 176-197: the record of one item block
orderItem(l, view, orderId) ==
    [orderId    |-> orderId,
     title      |-> trim(Lookup(l, view, "itemTitle")),
     asin       |-> getRegexGroupOrEmpty(hrefOrEmpty(LookupHref(l, view, "itemTitle")), "/dp/"),
     merchant   |-> getTextOrEmpty(Lookup(l, view, "orderedMerchant")),
     merchantId |-> getRegexGroupOrEmpty(hrefOrEmpty(LookupHref(l, view, "orderedMerchant")),
                                         "seller="),
     quantity   |-> extractInt(getTextOrDefault(Lookup(l, view, "quantity"), <<"1">>)),
     unitPrice  |-> getTextOrEmpty(Lookup(l, view, "unitPrice"))]

\* lines 158-220: the fields of the record getOrderDetails assembles from the
\* document displayed
getOrderDetails(l, view, orderId) ==
    [id                |-> orderId,
     date              |-> getTextOrEmpty(Lookup(l, view, "orderDate")),
     totalAmount       |-> getTextOrEmpty(Lookup(l, view, "totalAmount")),
     shippingName      |-> getTextOrEmpty(Lookup(l, view, "shippingName")),
     shippingAddress   |-> replaceAllNewlines(getTextOrEmpty(Lookup(l, view, "shippingAddress"))),
     paymentInstrument |-> getTextOrEmpty(Lookup(l, view, "paymentInstrument")),
     orderItems        |-> [i \in 1 .. ItemBlocks(l, view) |-> orderItem(l, view, orderId)],
     links             |-> <<>>]

\* getLinks, lines 223-240: name and url of every [href] element of the
\* document displayed
getLinks(l, view) == IF LinksModelled(l) THEN PageLinks(l, view) ELSE <<>>

\* new Date(text).toISOString() returns: the text is a date new Date can parse
isValidDate(text) == text = ParsableDate

\* lines 124-125: read the stored detail ledger and the ids it holds
DetRead ==
    /\ pc = "detRead"
    /\ orderDetails' = readYearOrderDetailsFromFile(detailsFile)
    /\ scrapedOrderIds' = ScrapedIdsOf(orderDetails')
    /\ orderIdx' = 1
    /\ prevEnd' = "none"
    /\ pc' = "detLoop"
    /\ UNCHANGED <<envVars, diskVars, runs, pageVars, idVars, order, idHist, detHist,
                   persistedPages, errVars, harnessVars, authVars, browser>>

\* lines 132-136: next id of the ledger; an id already scraped is skipped
DetLoop ==
    /\ pc = "detLoop"
    /\ IF orderIdx > Len(yearOrderIds.orderIds)
       THEN /\ pc' = "done"
            /\ UNCHANGED orderIdx
       ELSE IF AlreadyScraped(scrapedOrderIds, yearOrderIds.orderIds[orderIdx])
       THEN /\ orderIdx' = orderIdx + 1
            /\ pc' = "detLoop"
       ELSE /\ pc' = "detSleep"
            /\ UNCHANGED orderIdx
    /\ UNCHANGED <<envVars, diskVars, runs, pageVars, idVars, orderDetails, scrapedOrderIds,
                   order, idHist, detHist, prevEnd, persistedPages, errVars, harnessVars, authVars, browser>>

\* the position in the ledger of the order whose view is displayed, 0 for none
ShownIdx == IF shown[1] \in {"summary", "invoice"}
                /\ \E i \in DOMAIN yearOrderIds.orderIds : yearOrderIds.orderIds[i] = shown[2]
            THEN CHOOSE i \in DOMAIN yearOrderIds.orderIds : yearOrderIds.orderIds[i] = shown[2]
            ELSE 0

\* line 138: await randomSleep(800, 2000); a navigation outstanding for MaxLag
\* orders commits before the sleep ends
DetSleep ==
    /\ pc = "detSleep"
    /\ ShownIdx = 0 \/ orderIdx - ShownIdx <= MaxLag
    /\ pc' = DetailSucc(pc)
    /\ UNCHANGED <<envVars, diskVars, runs, pageVars, idVars, detVars, idHist, detHist,
                   prevEnd, persistedPages, errVars, harnessVars, authVars, browser>>

\* line 140: this.gotoOrderSummaryPage(page, orderId), not awaited
DetGotoSummary ==
    /\ pc = "detGotoSummary"
    /\ pending' = SummaryView(yearOrderIds.orderIds[orderIdx])
    /\ detailNavs' = detailNavs \cup {yearOrderIds.orderIds[orderIdx]}
    /\ pc' = DetailSucc(pc)
    /\ UNCHANGED <<envVars, diskVars, runs, shown, idVars, detVars, idHist, extracted,
                   downloaded, addLog, readFrom, prevEnd, persistedPages, errVars, harnessVars, authVars, browser>>

\* line 156: await page.waitForSelector("#orderDetails"), present on a summary view
DetWaitDetails ==
    /\ pc = "detWaitDetails"
    /\ shown[1] = "summary"
    /\ pc' = DetailSucc(pc)
    /\ UNCHANGED <<envVars, diskVars, runs, pageVars, idVars, detVars, idHist, detHist,
                   prevEnd, persistedPages, errVars, harnessVars, authVars, browser>>

\* lines 158-206: read the fields from the document displayed, then
\* this.gotoOrderInvoicePage(page, orderId), not awaited
DetExtract ==
    /\ pc = "detExtract"
    /\ IF titleThrows(listing, shown)
       THEN /\ pc' = "crashed"
            /\ failure' = "no itemTitle link"
            /\ browser' = "closed"
            /\ UNCHANGED <<order, readFrom, pending, detailNavs>>
       ELSE /\ order' = getOrderDetails(listing, shown, yearOrderIds.orderIds[orderIdx])
            /\ readFrom' = shown
            /\ pending' = InvoiceView(yearOrderIds.orderIds[orderIdx])
            /\ detailNavs' = detailNavs \cup {yearOrderIds.orderIds[orderIdx]}
            /\ pc' = DetailSucc(pc)
            /\ UNCHANGED <<failure, browser>>
    /\ UNCHANGED <<envVars, diskVars, runs, shown, idVars, orderDetails, scrapedOrderIds,
                   orderIdx, idHist, extracted, downloaded, addLog, prevEnd, persistedPages, harnessVars,
                   authVars>>

\* lines 207-220: await getLinks(page), which waits for an [href] element;
\* getOrderDetails returns the record with the links
DetGetLinks ==
    /\ pc = "detGetLinks"
    /\ PageLinks(listing, shown) # <<>>
    /\ order' = [order EXCEPT !.links = getLinks(listing, shown)]
    /\ extracted' = extracted \cup {order.id}
    /\ pc' = DetailSucc(pc)
    /\ UNCHANGED <<envVars, diskVars, runs, pageVars, idVars, orderDetails, scrapedOrderIds,
                   orderIdx, idHist, detailNavs,
                   downloaded, addLog, readFrom, prevEnd, persistedPages, errVars, harnessVars, authVars, browser>>

\* line 143: this.gotoOrderInvoicePage(page, orderId), not awaited
DetGotoInvoice ==
    /\ pc = "detGotoInvoice"
    /\ pending' = InvoiceView(yearOrderIds.orderIds[orderIdx])
    /\ detailNavs' = detailNavs \cup {yearOrderIds.orderIds[orderIdx]}
    /\ pc' = DetailSucc(pc)
    /\ UNCHANGED <<envVars, diskVars, runs, shown, idVars, detVars, idHist, extracted,
                   downloaded, addLog, readFrom, prevEnd, persistedPages, errVars, harnessVars, authVars, browser>>

\* line 144, lines 242-266: await downloadInvoices(page, order);
\* new Date(order.date).toISOString() throws a RangeError on a date it cannot parse
DetDownload ==
    /\ pc = "detDownload"
    /\ PageLinks(listing, shown) # <<>>
    /\ IF isValidDate(order.date)
       THEN /\ downloaded' = downloaded \cup {order.id}
            /\ pc' = DetailSucc(pc)
            /\ UNCHANGED <<failure, browser>>
       ELSE /\ pc' = "crashed"
            /\ failure' = "invalid date"
            /\ browser' = "closed"
            /\ UNCHANGED downloaded
    /\ UNCHANGED <<envVars, diskVars, runs, pageVars, idVars, detVars, idHist, detailNavs,
                   extracted, addLog, readFrom, prevEnd, persistedPages, harnessVars, authVars>>

\* line 146: appendOrder(orderDetails, order)
DetAppend ==
    /\ pc = "detAppend"
    /\ orderDetails' = appendUniqueOrder(orderDetails, order)
    /\ pc' = DetailSucc(pc)
    /\ UNCHANGED <<envVars, diskVars, runs, pageVars, idVars, scrapedOrderIds, orderIdx,
                   order, idHist, detHist, prevEnd, persistedPages, errVars, harnessVars, authVars, browser>>

\* line 147 and the loop step: rewrite the detail ledger of the year
DetWrite ==
    /\ pc = "detWrite"
    /\ detailsFile' = writeYearOrderDetailsToFile(detailsFile, orderDetails)
    /\ addLog' = addLog \o NewIds(detailsFile, detailsFile')
    /\ readFrom' = NoView
    /\ orderIdx' = orderIdx + 1
    /\ order' = NoOrder
    /\ pc' = DetailSucc(pc)
    /\ UNCHANGED <<envVars, idsFile, runs, pageVars, idVars, orderDetails, scrapedOrderIds,
                   idHist, detailNavs, extracted, downloaded, prevEnd, persistedPages, errVars, harnessVars, authVars, browser>>

-----------------------------------------------------------------------------
(* The browser and the operating system *)

\* a navigation that nobody awaits commits: the page displays its document
NavCommit ==
    /\ pc \notin {"dead", "crashed", "done", "exited"}
    /\ pending[1] \notin {"none", "rejected"}
    /\ shown' = pending
    /\ pending' = NoView
    /\ UNCHANGED <<envVars, diskVars, procVars, idVars, detVars, idHist, detHist,
                   prevEnd, persistedPages, errVars, harnessVars, authVars, browser>>

\* positions at which an awaited page-query operation can throw (navigation
\* failure, selector or text timeout)
AwaitsPage == {"idGotoFirst", "idReadTotal", "idGoto", "idCollect",
               "detWaitDetails", "detExtract", "detGetLinks", "detDownload"}

\* how a process that stops at this point is remembered by the next one
EndKind ==
    IF pc = "idLoop" /\ idWrites = 1 /\ orderPage = 1 /\ readLedger = NullLedger
    THEN "afterFirstWrite"
    ELSE IF yearOrderIds # NullLedger /\ readLedger = NullLedger
    THEN "fullIdRun"
    ELSE "other"

\* the error caught and dropped
FailureAtSwallowed(at) == "none"

\* the error an awaited operation throws at this position: page.goto rejects
\* with a navigation error, a wait or a lookup with a TimeoutError
FailureAt(at) == IF at \in {"idGotoFirst", "idGoto"} THEN "navigation" ELSE "timeout"

\* the errors that leave run() as a rejection and reach main().catch
ThroughRun == {"navigation", "timeout", "no .order-card", "no itemTitle link", "invalid date",
               "file system", "login", "launch"}

\* process.exit(1) in main().catch, and the runtime's exit for an unhandled
\* rejection; 0 for an exit without an error
ExitStatus == IF pc = "crashed" /\ failure # "none" THEN 1 ELSE 0

\* The process ends. An error that leaves main() passes the end of the scope of
\* "await using browser" (part_001 line 16), which closes the session; a kill
\* and the runtime's exit for an unhandled rejection do not.
Stop(how, err) ==
    /\ pc' = how
    /\ failure' = err
    /\ prevEnd' = EndKind
    /\ readFrom' = NoView
    /\ shown' = Blank
    /\ pending' = NoView
    /\ browser' = IF err \in ThroughRun /\ browser = "open" THEN "closed" ELSE browser
    /\ loggedIn' = FALSE
    /\ ResetLocals
    /\ UNCHANGED <<envVars, diskVars, runs, extracted, downloaded, addLog, persistedPages,
                   harnessVars, signedIn>>

\* the awaited operation throws; the error reaches main().catch: process.exit(1)
PageOpFails ==
    /\ pc \in AwaitsPage
    /\ Stop("crashed", FailureAt(pc))

\* a navigation that nobody awaits is rejected and the page keeps its
\* document: no caller sees the rejection. The runtime either carries on or
\* ends the process for the unhandled rejection.
NavRejected ==
    /\ pc \notin {"dead", "crashed", "done", "exited"}
    /\ pending[1] \notin {"none", "rejected"}
    /\ \/ /\ pending' = Rejected(pending)
          /\ UNCHANGED <<envVars, diskVars, procVars, shown, idVars, detVars, idHist,
                         detHist, prevEnd, persistedPages, failure, harnessVars, authVars, browser>>
       \/ Stop("crashed", "unhandledRejection")

\* the write tried again at the position where it failed
AfterWriteErrorRetry(at) == at

\* no try/catch around writeYearOrderIdsToFile (part_010 line 80) and
\* writeYearOrderDetailsToFile (line 147), nor in run() and main(): the error
\* of a write ends the process
AfterWriteError(at) == "crashed"

\* writeFileSync or mkdirSync throws (permission, disk full): the file stays as it was
WriteFails ==
    /\ pc \in {"idWrite", "detWrite"}
    /\ IF AfterWriteError(pc) = "crashed"
       THEN Stop("crashed", "file system")
       ELSE /\ pc' = AfterWriteError(pc)
            /\ failure' = "file system"
            /\ UNCHANGED <<envVars, diskVars, runs, pageVars, idVars, detVars, idHist, detHist,
                           prevEnd, persistedPages, harnessVars, authVars, browser>>

\* the process is killed
Kill ==
    /\ pc \notin {"dead", "crashed", "exited", "harness"}
    /\ Stop("dead", "none")

-----------------------------------------------------------------------------
(* main: the browser session and the login *)

\* what /anmelden|sign in/i matches
SignInTokens == {"anmelden", "Anmelden", "sign in", "Sign in"}

\* textContent of #nav-link-accountList-nav-line-1 on the home page
AccountText(session) == IF session THEN <<"Hello,", " ", "Max">> ELSE <<"Hello,", " ", "sign in">>

\* what the check can find: the line of the account, or nothing when the
\* navigation or the lookup throws
AccountLookups(session) == {NoElement, AccountText(session)}

\* AmzScAuth.isLoggedIn: false when anything throws, when the text is null or
\* empty, and when it matches the sign-in pattern
isLoggedIn(found) ==
    IF found = NoElement THEN FALSE
    ELSE IF found = NullText \/ found = <<>> THEN FALSE
    ELSE ~(\E i \in DOMAIN found : found[i] \in SignInTokens)

\* the verification after the manual login taken for passed whatever it returned
AfterLoginCheckLenient(at, ok) ==
    IF at = "login" /\ ~ok THEN "manualLogin" ELSE "idRead"

\* login() returns when the check is true and calls waitForManualLogin()
\* otherwise; waitForManualLogin() returns when its check is true and throws
\* otherwise; main() calls scraper.run() after login() returned
AfterLoginCheck(at, ok) ==
    IF ok THEN "idRead" ELSE IF at = "login" THEN "manualLogin" ELSE "crashed"

\* part_001 line 16: await AmzScBrowser.launchPersistent(config)
Launch ==
    /\ pc = "launch"
    /\ browser' = "open"
    /\ pc' = "login"
    /\ UNCHANGED <<envVars, diskVars, runs, pageVars, idVars, detVars, idHist, detHist,
                   prevEnd, persistedPages, errVars, harnessVars, authVars>>

\* chromium.launchPersistentContext throws: logged and thrown again
LaunchFails ==
    /\ pc = "launch"
    /\ Stop("crashed", "launch")

\* the check of login() (line 28) and of waitForManualLogin() (line 84)
LoginCheck ==
    /\ pc \in {"login", "verifyLogin"}
    /\ \E found \in AccountLookups(signedIn) :
           LET ok == isLoggedIn(found)
           IN  IF AfterLoginCheck(pc, ok) = "crashed"
               THEN Stop("crashed", "login")
               ELSE /\ loggedIn' = ok
                    /\ pc' = AfterLoginCheck(pc, ok)
                    /\ UNCHANGED <<envVars, diskVars, runs, pageVars, idVars, detVars, idHist,
                                   detHist, prevEnd, persistedPages, errVars, harnessVars, signedIn, browser>>

\* waitForManualLogin lines 76-81: the user is asked to sign in in the browser
\* window and presses Enter, signed in or not
ManualLogin ==
    /\ pc = "manualLogin"
    /\ signedIn' \in {signedIn, TRUE}
    /\ pc' = "verifyLogin"
    /\ UNCHANGED <<envVars, diskVars, runs, pageVars, idVars, detVars, idHist, detHist,
                   prevEnd, persistedPages, errVars, harnessVars, loggedIn, browser>>

\* part_001 lines 26-28: run() returned, Enter is pressed, main() leaves the
\* scope of the browser, which closes it
MainReturns ==
    /\ pc = "done"
    /\ browser' = "closed"
    /\ pc' = "exited"
    /\ UNCHANGED <<envVars, diskVars, runs, pageVars, idVars, detVars, idHist, detHist,
                   prevEnd, persistedPages, errVars, harnessVars, authVars>>

\* the program is started again on the same download directory and profile
Restart ==
    /\ pc \in {"dead", "crashed", "exited"}
    /\ runs < MaxRuns
    /\ runs' = runs + 1
    /\ pc' = "launch"
    /\ prevEnd' = IF pc = "exited" THEN EndKind ELSE prevEnd
    /\ failure' = "none"
    /\ readFrom' = NoView
    /\ shown' = Blank
    /\ pending' = NoView
    /\ browser' = "none"
    /\ loggedIn' = FALSE
    /\ ResetLocals
    /\ UNCHANGED <<envVars, diskVars, extracted, downloaded, addLog, persistedPages,
                   harnessVars, signedIn>>

Next ==
    \/ Launch \/ LaunchFails \/ LoginCheck \/ ManualLogin
    \/ IdRead \/ IdGotoFirst \/ IdReadTotal \/ IdLoop \/ IdSleep \/ IdGoto
    \/ IdCollect \/ IdMerge \/ IdWrite \/ IdReturn
    \/ DetRead \/ DetLoop \/ DetSleep \/ DetGotoSummary \/ DetWaitDetails
    \/ DetExtract \/ DetGetLinks \/ DetGotoInvoice \/ DetDownload
    \/ DetAppend \/ DetWrite \/ MainReturns
    \/ NavCommit \/ NavRejected \/ PageOpFails \/ WriteFails \/ Kill \/ Restart

Spec == Init /\ [][Next]_vars


-----------------------------------------------------------------------------
(* appendUniqueOrder on its own: lists built by the function from the empty list *)

MaxApIds == 3       \* order ids of the harness

ApOrders == {[NoOrder EXCEPT !.id = i, !.date = d] :
                 i \in 1 .. MaxApIds, d \in {ParsableDate, UnparsableDate}}

InitAppend ==
    /\ listing = [total |-> 0, shape |-> "exact", oddOrder |-> 0, flaw |-> NoFlaw, drift |-> 0]
    /\ idsFile = NoFile
    /\ detailsFile = <<>>
    /\ pc = "harness"
    /\ runs = 0
    /\ shown = Blank
    /\ pending = NoView
    /\ InitLocals
    /\ extracted = {}
    /\ downloaded = {}
    /\ addLog = <<>>
    /\ prevEnd = "none"
    /\ persistedPages = {}
    /\ failure = "none"
    /\ readFrom = NoView
    /\ browser = "none"
    /\ signedIn = FALSE
    /\ loggedIn = FALSE
    /\ InitHarness

\* appendUniqueOrder(list, o) and then appendUniqueOrder(list, again), again.id = o.id
ApCall(o, again) ==
    /\ pc = "harness"
    /\ again.id = o.id
    /\ apExisting' = apOnce
    /\ apOrder' = o
    /\ apOnce' = appendUniqueOrder(apOnce, o)
    /\ apTwice' = appendUniqueOrder(apOnce', again)
    /\ UNCHANGED <<envVars, diskVars, procVars, pageVars, idVars, detVars, idHist, detHist,
                   prevEnd, persistedPages, errVars, exVars, pdVars, authVars, browser>>

NextAppend == \E o, again \in ApOrders : ApCall(o, again)

SpecAppend == InitAppend /\ [][NextAppend]_vars

-----------------------------------------------------------------------------
(* extractInt on its own: every text of up to MaxLen characters, and null *)

MaxLen == 4         \* characters of a text handed to extractInt

ExChars == {"0", "1", "7", ".", " ", "B"}

ExTexts == UNION {[1 .. n -> ExChars] : n \in 0 .. MaxLen} \cup {NullText}

\* the state of a process that only calls a function
InitIdle ==
    /\ listing = [total |-> 0, shape |-> "exact", oddOrder |-> 0, flaw |-> NoFlaw, drift |-> 0]
    /\ idsFile = NoFile
    /\ detailsFile = <<>>
    /\ pc = "harness"
    /\ runs = 0
    /\ shown = Blank
    /\ pending = NoView
    /\ InitLocals
    /\ extracted = {}
    /\ downloaded = {}
    /\ addLog = <<>>
    /\ prevEnd = "none"
    /\ persistedPages = {}
    /\ failure = "none"
    /\ readFrom = NoView
    /\ browser = "none"
    /\ signedIn = FALSE
    /\ loggedIn = FALSE

InitExtract ==
    /\ InitIdle
    /\ InitAp
    /\ InitPd
    /\ exText \in ExTexts
    /\ exInt = NaN

\* extractInt(exText)
ExCall ==
    /\ pc = "harness"
    /\ exInt' = extractInt(exText)
    /\ pc' = "returned"
    /\ UNCHANGED <<envVars, diskVars, runs, pageVars, idVars, detVars, idHist, detHist,
                   prevEnd, persistedPages, errVars, apVars, exText, pdVars, authVars, browser>>

NextExtract == ExCall

SpecExtract == InitExtract /\ [][NextExtract]_vars

-----------------------------------------------------------------------------
(* parseDEDateToISO on its own: every text of up to MaxAtoms atoms *)

MaxAtoms == 6       \* atoms of a text handed to parseDEDateToISO

DateAtoms == {"5", "2024", ".", " ", "M<a-umlaut>rz", "March", "constructor"}

DateTexts == UNION {[1 .. n -> DateAtoms] : n \in 0 .. MaxAtoms}

InitDate ==
    /\ InitIdle
    /\ InitAp
    /\ InitEx
    /\ pdText \in DateTexts
    /\ pdIso = NullText

\* parseDEDateToISO(pdText)
PdCall ==
    /\ pc = "harness"
    /\ pdIso' = parseDEDateToISO(pdText)
    /\ pc' = "returned"
    /\ UNCHANGED <<envVars, diskVars, runs, pageVars, idVars, detVars, idHist, detHist,
                   prevEnd, persistedPages, errVars, apVars, exVars, pdText, authVars, browser>>

NextDate == PdCall

SpecDate == InitDate /\ [][NextDate]_vars

-----------------------------------------------------------------------------
(* Properties of the order-id harvest *)

\* totalOrders == len(orderIds), as the data model states it
LedgerComplete(l) == l # NullLedger /\ l.totalOrders = Len(l.orderIds)

\* the ids a listing page yields, as a set
PageIdSet(l, p) == Range(PageCards(l, p)) \ {0}

\* an unchanged listing that shows every order of the year: the ids of its
\* pages are exactly as many as the server total
ListingConsistent(l) ==
    /\ Cardinality(UNION {PageIdSet(l, p) : p \in 0 .. ListingPages(l) - 1}) = l.total
    /\ l.drift = 0

\* the ids in the order in which a run over pages 0 .. p of an empty store sees them
RECURSIVE SeenUpTo(_, _)
SeenUpTo(l, p) ==
    IF p < 0 THEN <<>>
    ELSE LET front == SeenUpTo(l, p - 1)
         IN  front \o SelectSeq(PageCards(l, p), LAMBDA c : c # 0 /\ c \notin Range(front))

\* the ledger an uninterrupted run over the listing leaves on disk
UninterruptedLedger(l) ==
    [year |-> InvoiceYear, totalOrders |-> l.total, orderIds |-> SeenUpTo(l, ListingPages(l) - 1)]

InIdHarvest == pc \in {"idRead", "idGotoFirst", "idReadTotal", "idLoop", "idSleep", "idGoto",
                       "idCollect", "idMerge", "idWrite", "idReturn"}

InDetailHarvest == pc \in {"detRead", "detLoop", "detSleep", "detGotoSummary", "detWaitDetails",
                           "detExtract", "detGetLinks", "detGotoInvoice", "detDownload",
                           "detAppend", "detWrite"}

\* C1: when the stored ledger of the year is complete, collectOrderIdsForYear
\* returns it after no listing navigation and no ledger write, and the ledger
\* file stays as it was read.
C1_CompleteLedgerShortCircuits ==
    LedgerComplete(readLedger) =>
        /\ navLog = <<>>
        /\ idWrites = 0
        /\ idsFile = readLedger
        /\ pc \notin {"idGotoFirst", "idReadTotal", "idLoop", "idSleep", "idGoto",
                      "idCollect", "idMerge", "idWrite", "idReturn"}
        /\ (InDetailHarvest \/ pc = "done") => yearOrderIds = readLedger

C1_Witness ==
    /\ runs >= 2
    /\ LedgerComplete(readLedger)
    /\ listing.total = MaxTotal
    /\ pc = "detRead"
    /\ yearOrderIds = readLedger

\* C2: against an unchanged listing that shows every order, the first full run
\* of the id harvest leaves a persisted ledger without duplicate ids that is
\* complete, and the run after it fetches no listing page.
C2_TwiceIdempotent ==
    ListingConsistent(listing) =>
        /\ (readLedger = NullLedger /\ yearOrderIds # NullLedger) =>
               /\ idsFile # NoFile
               /\ NoDuplicates(idsFile.orderIds)
               /\ idsFile.totalOrders = Len(idsFile.orderIds)
        /\ (prevEnd = "fullIdRun" /\ (InIdHarvest \/ pc = "detRead")) =>
               /\ navLog = <<>>
               /\ pc \in {"idRead", "detRead"}

C2_Witness ==
    /\ ListingConsistent(listing)
    /\ listing.total = MaxTotal
    /\ runs = 2
    /\ prevEnd = "fullIdRun"
    /\ pc = "detRead"
    /\ navLog = <<>>
    /\ Len(idsFile.orderIds) = MaxTotal

\* C3: after a kill right after the ledger write of the first page (10 ids) of
\* a 3-page year, the restarted id harvest resumes at page index 1, never
\* requests page index 0, and ends with the ledger of an uninterrupted run on
\* disk and in hand.
C3_ResumeAfterFirstPage ==
    (/\ prevEnd = "afterFirstWrite"
     /\ InIdHarvest \/ pc = "detRead"
     /\ ListingPages(listing) = 3
     /\ Cardinality(PageIdSet(listing, 0)) = PageSize) =>
        /\ pc # "idRead" => startPage = 1
        /\ \A i \in DOMAIN navLog : navLog[i] # 0
        /\ pc = "detRead" =>
               /\ idsFile = UninterruptedLedger(listing)
               /\ yearOrderIds = UninterruptedLedger(listing)

C3_Witness ==
    /\ prevEnd = "afterFirstWrite"
    /\ ListingPages(listing) = 3
    /\ Cardinality(PageIdSet(listing, 0)) = PageSize
    /\ runs = 2
    /\ pc = "detRead"
    /\ navLog = <<1, 1, 2>>

C5_NoDuplicateIds ==
    /\ NoDuplicates(idsFile.orderIds)
    /\ NoDuplicates(yearOrders.orderIds)
    /\ NoDuplicates(yearOrderIds.orderIds)

C5_Witness ==
    /\ pc = "idLoop"
    /\ idWrites >= 1
    /\ readLedger # NullLedger
    /\ PageIdSet(listing, startPage) \cap Range(readLedger.orderIds) # {}
    /\ listing.shape = "overlap"
    /\ orderPage = 3
    /\ Len(idsFile.orderIds) = MaxTotal


-----------------------------------------------------------------------------
(* Properties of the dedup contract and of the order-detail harvest *)

IdsOf(list) == [i \in DOMAIN list |-> list[i].id]

\* C6: appendUniqueOrder appends the candidate when no element of the list has
\* its id and leaves the list as it is otherwise; a second call with the same
\* id changes nothing, so two calls change the list exactly once.
C6_AppendUniqueOrder ==
    (pc = "harness" /\ apOrder # NoOrder) =>
        /\ (\A i \in DOMAIN apExisting : apExisting[i].id # apOrder.id) =>
               /\ apOnce = Append(apExisting, apOrder)
               /\ Len(apTwice) = Len(apExisting) + 1
        /\ (\E i \in DOMAIN apExisting : apExisting[i].id = apOrder.id) =>
               apOnce = apExisting
        /\ apTwice = apOnce

C6_Witness ==
    /\ pc = "harness"
    /\ Len(apExisting) = 2
    /\ \A i \in DOMAIN apExisting : apExisting[i].id # apOrder.id
    /\ Len(apOnce) = 3
    /\ apTwice = apOnce

\* C7: whatever runs were killed and restarted, the detail ledger on disk
\* never holds two records with the same id.
C7_DetailLedgerUniqueIds == NoDuplicates(IdsOf(detailsFile))

C7_Witness ==
    /\ runs = MaxRuns
    /\ pc = "detLoop"
    /\ scrapedOrderIds # {}
    /\ Len(detailsFile) > Cardinality(scrapedOrderIds) + 1
    /\ prevEnd = "none"

\* C8: the detail harvest issues no navigation to the summary or invoice view
\* of an id whose record was in the detail ledger read at the start of the run.
C8_ScrapedOrdersNotFetched == detailNavs \cap scrapedOrderIds = {}

C8_Witness ==
    /\ InDetailHarvest
    /\ Cardinality(scrapedOrderIds) >= 2
    /\ orderIdx > Cardinality(scrapedOrderIds) + 1
    /\ Cardinality(detailNavs) >= 2

\* C9: a record is in the detail ledger on disk only after getOrderDetails and
\* downloadInvoices both finished for its order, and every record entered the
\* ledger exactly once.
C9_RecordAfterExtractAndDownload ==
    /\ \A i \in DOMAIN detailsFile :
           detailsFile[i].id \in extracted /\ detailsFile[i].id \in downloaded
    /\ NoDuplicates(addLog)
    /\ Range(addLog) = Range(IdsOf(detailsFile))

C9_Witness ==
    /\ pc = "detLoop"
    /\ Len(detailsFile) >= 3
    /\ Len(addLog) = Len(detailsFile)
    /\ runs >= 2

-----------------------------------------------------------------------------
(* Properties of failure handling and of sequencing *)

\* the errors the design calls recoverable for one order: a wait or a lookup
\* that times out, an element that is absent, a date that cannot be converted
Recoverable == {"timeout", "no itemTitle link", "invalid date"}

\* C11: a failure of extraction or download of one order for a recoverable
\* reason does not abort the loop over the remaining ids: no step of the
\* detail harvest ends the process with such an error.
C11_RecoverableFailureContinues ==
    [][(InDetailHarvest /\ pc' = "crashed") => failure' \notin Recoverable]_vars

\* C12: every navigation failure leaves run() as an error and ends the process
\* with a non-zero status: no rejected navigation stays unobserved, the
\* process never ends for a rejection that nobody handled, and a navigation
\* error is always the error the process ended with.
C12_NavigationFailurePropagates ==
    /\ pending[1] # "rejected"
    /\ failure # "unhandledRejection"
    /\ failure = "navigation" => pc = "crashed" /\ ExitStatus = 1

\* the page-query operations in flight: the navigation nobody awaited and the
\* operation the process waits for
Outstanding ==
    (IF pending[1] \notin {"none", "rejected"} THEN 1 ELSE 0)
        + (IF pc \in AwaitsPage THEN 1 ELSE 0)

\* C13: at most one page-query operation is outstanding at any time.
C13_OneOperationOutstanding == Outstanding <= 1

\* the record of the order in flight exists and was read from the summary
\* view of its own order
RecordInFlight == pc \in {"detGetLinks", "detGotoInvoice", "detDownload", "detAppend", "detWrite"}

ReadOwnView == readFrom = SummaryView(order.id)

FieldIsDefault(r, e) ==
    CASE e = "paymentInstrument" -> r.paymentInstrument = <<>>
      [] e = "orderDate"         -> r.date = <<>>
      [] e = "totalAmount"       -> r.totalAmount = <<>>
      [] e = "shippingName"      -> r.shippingName = <<>>
      [] e = "shippingAddress"   -> r.shippingAddress = <<>>
      [] e = "itemTitle"         -> r.orderItems[1].title = <<>>
      [] e = "orderedMerchant"   -> r.orderItems[1].merchant = <<>>
      [] e = "quantity"          -> r.orderItems[1].quantity = 1
      [] e = "unitPrice"         -> r.orderItems[1].unitPrice = <<>>

\* C15: every field is extracted on its own: when its element is missing, its
\* text empty or white space, the field holds its default value and the order
\* is not aborted, neither by the lookup nor by what is done with the default.
C15_EveryFieldDegradesToDefault ==
    /\ failure # "no itemTitle link"
    /\ failure = "invalid date" => order.date # <<>>
    /\ (/\ RecordInFlight /\ ReadOwnView
        /\ order.id = listing.oddOrder
        /\ listing.flaw[1] \in Elements
        /\ listing.flaw[2] \in {"absent", "empty", "blank"}) =>
           FieldIsDefault(order, listing.flaw[1])

-----------------------------------------------------------------------------
(* Properties of the pagination and of the server total *)

\* the positions of collectOrderIdsForYear after the server total was read
TotalKnown == pc \in {"idLoop", "idSleep", "idGoto", "idCollect", "idMerge", "idWrite", "idReturn"}

\* C16: with n ids stored in an incomplete ledger the harvest starts at page
\* index floor(n / 10); with the server total T, once it is read, the loop
\* fetches the page indices from the start page to ceil(T / 10) - 1 in order,
\* none above, and ends after that page; 25 stored ids give resume page 2, and
\* T = 25 gives 3 pages. The first entry of navLog is the navigation of line
\* 47, made to read T.
C16_PaginationMath ==
    /\ (InIdHarvest /\ pc # "idRead") =>
           /\ startPage * 10 <= Len(readLedger.orderIds)
           /\ Len(readLedger.orderIds) < (startPage + 1) * 10
    /\ TotalKnown =>
           /\ yearTotalPages * 10 >= yearTotalOrders
           /\ (yearTotalPages - 1) * 10 < yearTotalOrders
           /\ navLog[1] = startPage
           /\ \A i \in 2 .. Len(navLog) : navLog[i] <= yearTotalPages - 1
           /\ orderPage <= (IF startPage > yearTotalPages THEN startPage ELSE yearTotalPages)
           /\ pc = "idReturn" =>
                  /\ orderPage = (IF startPage > yearTotalPages THEN startPage ELSE yearTotalPages)
                  /\ navLog = <<startPage>> \o IdsFromTo(startPage, yearTotalPages - 1)
    /\ StartPageOf(AmzScYearOrderIds(InvoiceYear, 30, IdsFromTo(1, 25))) = 2
    /\ CeilPages(25) = 3

C16_Witness ==
    /\ pc = "idReturn"
    /\ Len(readLedger.orderIds) = 10
    /\ startPage = 1
    /\ yearTotalOrders = MaxTotal
    /\ navLog = <<1, 1, 2>>

\* C17: in one run of the id harvest the server total is read once, from the
\* first page fetched, and every ledger the run writes or returns carries
\* that value as totalOrders.
C17_TotalReadOnce ==
    /\ [](((InIdHarvest \/ pc = "detRead") /\ idWrites > 0) =>
              /\ idsFile.totalOrders = yearTotalOrders
              /\ yearOrders.totalOrders = yearTotalOrders)
    /\ []((pc = "detRead" /\ navLog # <<>>) =>
              yearOrderIds.totalOrders = yearTotalOrders)
    /\ [][yearTotalOrders' # yearTotalOrders =>
              \/ /\ pc = "idReadTotal"
                 /\ navLog = <<startPage>>
                 /\ yearTotalOrders = NaN
                 /\ yearTotalOrders' = ReportedTotal(listing, runs)
              \/ pc' \in {"dead", "crashed", "launch"}]_vars

C17_Witness ==
    /\ pc = "detRead"
    /\ readLedger # NullLedger
    /\ idWrites = 2
    /\ yearTotalOrders = MaxTotal
    /\ idsFile.totalOrders = MaxTotal
    /\ yearOrderIds.totalOrders = MaxTotal

\* C18: the totalOrders of the ledger file, once written, is not changed by
\* any later write, those of a resumed run included.
C18_TotalOrdersFixedOnceWritten ==
    [][(idsFile # NoFile /\ idsFile' # NoFile) =>
           idsFile'.totalOrders = idsFile.totalOrders]_vars

\* C19: a fetched listing page that yields no id makes the harvest fail for
\* that page: the empty result is never merged nor written.
C19_EmptyPageFails ==
    pc \in {"idMerge", "idWrite"} => pageOrderIds # <<>>

\* no .order-card in the document displayed
NoOrderCards == shown[1] # "listing" \/ PageCards(listing, shown[2]) = <<>>

\* C20: when the order cards do not appear on a listing page the id harvest
\* ends with an error that leaves run(): the process exits non-zero, the
\* ledger file is not written, no ledger is returned and the detail harvest
\* does not start.
C20_MissingContainerHalts ==
    /\ [][(pc \in {"idReadTotal", "idCollect"} /\ pc' = "crashed") =>
              /\ failure' \in {"timeout", "no .order-card"}
              /\ failure' \in ThroughRun
              /\ ExitStatus' = 1
              /\ diskVars' = diskVars
              /\ yearOrderIds' = NullLedger]_vars
    /\ [][(pc \in {"idReadTotal", "idCollect"} /\ NoOrderCards) =>
              pc' \in {"crashed", "dead"}]_vars
    /\ [][pc = "crashed" => pc' \in {"crashed", "launch"}]_vars

C20_Witness ==
    /\ pc = "crashed"
    /\ failure = "no .order-card"
    /\ listing.total = 0
    /\ idsFile = NoFile
    /\ yearOrderIds = NullLedger

-----------------------------------------------------------------------------
(* Properties of the top-level run: persistence errors, the browser session,
   the delay and the login *)

\* C21: an error of a ledger write leaves run() uncaught and ends the process
\* with a non-zero status: the write is not tried again, both files stay as
\* they were, and the ended process does nothing but be started again.
C21_WriteErrorEndsRun ==
    /\ [](failure = "file system" => pc = "crashed" /\ ExitStatus = 1)
    /\ [][(pc \in {"idWrite", "detWrite"} /\ failure' = "file system") =>
              /\ pc' = "crashed"
              /\ failure' \in ThroughRun
              /\ diskVars' = diskVars]_vars
    /\ [][(pc = "crashed" /\ failure = "file system") =>
              pc' = "launch" /\ runs' = runs + 1]_vars

C21_Witness ==
    /\ pc = "crashed"
    /\ failure = "file system"
    /\ idsFile # NoFile
    /\ detailsFile # <<>>

\* C22: whenever the process ends by itself after the browser was launched,
\* on a normal completion or on an error, the browser session is closed.
C22_BrowserClosedOnEveryExit ==
    (pc \in {"crashed", "exited"} /\ failure # "launch") => browser = "closed"

\* C23: between two consecutive listing navigations of a run of the id
\* harvest the randomized delay is executed.
C23_DelayBetweenListingNavigations ==
    [][(Len(navLog') > Len(navLog) /\ navLog # <<>>) => delayed]_vars

C23_Witness ==
    /\ pc = "idCollect"
    /\ Len(navLog) = 4
    /\ ~delayed

\* C24: the manual login is entered only from a check of login() that returned
\* false, the check after the manual login either returns true or ends the
\* process with the login error, and the harvest is entered only from a check
\* that returned true.
C24_HarvestAfterLoginCheck ==
    /\ []((InIdHarvest \/ InDetailHarvest \/ pc = "done") => loggedIn)
    /\ [][(pc' = "manualLogin" /\ pc # "manualLogin") => pc = "login" /\ ~loggedIn']_vars
    /\ [][(pc = "verifyLogin" /\ pc' \notin {"verifyLogin", "dead", "idRead"}) =>
              pc' = "crashed" /\ failure' = "login"]_vars
    /\ [][(pc' = "idRead" /\ pc # "idRead") =>
              pc \in {"login", "verifyLogin"} /\ loggedIn']_vars

C24_Witness ==
    /\ pc = "crashed"
    /\ failure = "login"
    /\ ~signedIn
    /\ browser = "closed"

-----------------------------------------------------------------------------
(* Properties of the record and of the text utilities *)

\* the links of a list whose url ends with the PDF extension
PdfLinksOf(links) == SelectSeq(links, LAMBDA k : EndsWithPdf(k.url))

\* the record of the order in flight holds the links getLinks returned
LinksInRecord == pc \in {"detGotoInvoice", "detDownload", "detAppend", "detWrite"}

DigitsIn(text) == SelectSeq(text, IsDigit)

\* a string of digits without its leading zeros, the last digit kept
RECURSIVE StripZeros(_)
StripZeros(d) == IF Len(d) > 1 /\ Head(d) = "0" THEN StripZeros(Tail(d)) ELSE d

\* C26: extractInt returns the integer whose decimal digits are the digits of
\* the text, every other character left out, and NaN for null, for the empty
\* text and for a text without a digit; "1.234 Bestellungen" gives 1234.
C26_ExtractInt ==
    /\ pc = "returned" =>
           /\ DigitsIn(exText) = <<>> => exInt = NaN
           /\ DigitsIn(exText) # <<>> =>
                  /\ exInt >= 0
                  /\ Digits(exInt) = StripZeros(DigitsIn(exText))
    /\ extractInt(<<"1", ".", "2", "3", "4", " ", "B", "e", "s", "t", "e", "l", "l",
                    "u", "n", "g", "e", "n">>) = 1234
    /\ extractInt(NullText) = NaN

C26_Witness ==
    /\ pc = "returned"
    /\ exText = <<"1", ".", "7", "B">>
    /\ exInt = 17

\* the month names of the two languages and their numbers
MonthNames == ("M<a-umlaut>rz" :> "03") @@ ("March" :> "03") @@ ("Mai" :> "05")
                  @@ ("Dezember" :> "12") @@ ("December" :> "12")

\* the tokens of a date text: its parts between white space, punctuation left out
DateTokens(text) == split(trim(SelectSeq(text, LAMBDA a : a \notin Punctuation)))

\* C27: a text "<day> <month-name> <year>" with a German or English month
\* name gives the ISO date, and a text that has not exactly three tokens or
\* whose month token is no month name gives null; "5. M<a-umlaut>rz 2024"
\* gives "2024-03-05", "March 5 2024" and "not a date" give null.
C27_ParseLocalizedDate ==
    /\ pc = "returned" =>
           /\ \A m \in DOMAIN MonthNames :
                  pdText \in {<<"5", " ", m, " ", "2024">>, <<"5", ".", " ", m, " ", "2024">>} =>
                      pdIso = <<"2024", "-", MonthNames[m], "-", "0", "5">>
           /\ (\/ Len(DateTokens(pdText)) # 3
               \/ DateTokens(pdText)[2] \notin {<<m>> : m \in DOMAIN MonthNames}) =>
                  pdIso = NullText
    /\ parseDEDateToISO(<<"March", " ", "5", " ", "2024">>) = NullText
    /\ parseDEDateToISO(<<"not", " ", "a", " ", "date">>) = NullText

-----------------------------------------------------------------------------
(* Properties of the growth of the two ledgers *)

NewOnPage == SelectSeq(PageCards(listing, orderPage),
                       LAMBDA c : c # 0 /\ c \notin Range(idsFile.orderIds))

\* C29: every write of the year ledger stores the orderIds of the file before
\* it (nothing for an absent file) followed by the ids newly seen on the page,
\* in page order, and no other step changes the orderIds of the file.
C29_OrderIdsAppendOnly ==
    /\ [][(pc = "idWrite" /\ pc' = "idLoop") =>
              idsFile'.orderIds = idsFile.orderIds \o NewOnPage]_vars
    /\ [][idsFile'.orderIds # idsFile.orderIds => pc = "idWrite"]_vars

C29_Witness ==
    /\ pc = "idLoop"
    /\ listing.shape = "overlap"
    /\ readLedger # NullLedger
    /\ idWrites = 2
    /\ Len(readLedger.orderIds) = PageSize
    /\ Len(idsFile.orderIds) = MaxTotal
    /\ SubSeq(idsFile.orderIds, 1, PageSize) = readLedger.orderIds

\* the ids of the records the run in progress has added to the file, in file order
AddedIds == SelectSeq(IdsOf(detailsFile), LAMBDA x : x \notin scrapedOrderIds)

\* the ids the loop has passed that were not collected when the run started,
\* in ledger order
PassedUncollected ==
    SelectSeq(SubSeq(yearOrderIds.orderIds, 1, orderIdx - 1),
              LAMBDA x : x \notin scrapedOrderIds)

\* C30: the detail harvest takes the uncollected ids in the order of the year
\* ledger: the records a run has added to the detail ledger are those of the
\* uncollected ids the loop has passed, in ledger order.
C30_DetailsInLedgerOrder ==
    (InDetailHarvest /\ pc # "detRead") => AddedIds = PassedUncollected

C30_Witness ==
    /\ runs >= 2
    /\ pc = "detLoop"
    /\ scrapedOrderIds # {}
    /\ Len(AddedIds) >= 2
    /\ orderIdx <= Len(yearOrderIds.orderIds)

\* C36: every record of the detail ledger on disk has the id of an order of
\* the year ledger that the id harvest handed to the detail harvest (and of
\* the year ledger on disk): the detail harvest records no order that is not
\* in the ledger, in whatever run the record was written.
C36_RecordsAreLedgerOrders ==
    yearOrderIds # NullLedger =>
        \A i \in DOMAIN detailsFile :
            /\ detailsFile[i].id \in Range(yearOrderIds.orderIds)
            /\ detailsFile[i].id \in Range(idsFile.orderIds)

C36_Witness ==
    /\ runs = 2
    /\ pc = "detLoop"
    /\ readLedger # NullLedger
    /\ ~isComplete(readLedger)
    /\ scrapedOrderIds # {}
    /\ Len(detailsFile) > Cardinality(scrapedOrderIds)
    /\ Len(yearOrderIds.orderIds) > Len(detailsFile)

-----------------------------------------------------------------------------
(* Properties of the reads of the detail harvest *)

\* the record in flight carries the links getLinks returned
LinksRead == pc \in {"detGotoInvoice", "detDownload", "detAppend", "detWrite"}

\* C32: every read made for an order comes after the navigation to its view
\* has completed: the fields are read from the summary view of the order, the
\* links from its invoice view, and downloadInvoices looks for the PDF links
\* in its invoice view.
C32_ReadsFollowNavigation ==
    /\ [](RecordInFlight => ReadOwnView)
    /\ []((LinksRead /\ LinksModelled(listing)) =>
              order.links = PageLinks(listing, InvoiceView(order.id)))
    /\ [][(pc = "detDownload" /\ pc' = DetailSucc(pc)) => shown = InvoiceView(order.id)]_vars

-----------------------------------------------------------------------------
(* Properties of the navigation of the order-id harvest *)

\* C31: the page a resumed run starts at is not beyond a page that was not
\* fetched and stored: every page with a smaller index was merged into the
\* ledger by a write of an earlier run, and the ids it shows are in the ledger
\* the run read.
C31_ResumeSkipsNoPage ==
    (InIdHarvest /\ pc # "idRead" /\ readLedger # NullLedger) =>
        /\ startPage = Len(readLedger.orderIds) \div PageSize
        /\ \A p \in 0 .. startPage - 1 :
               /\ p \in persistedPages
               /\ PageIdSet(listing, p) \subseteq Range(readLedger.orderIds)

C31_Witness ==
    /\ pc = "idGotoFirst"
    /\ readLedger # NullLedger
    /\ listing.shape = "overlap"
    /\ Len(readLedger.orderIds) = 2 * PageSize - 1
    /\ startPage = 1
    /\ persistedPages = {0, 1}

\* C33: within one run of the id harvest no listing page index is navigated
\* to more than once.
C33_EachPageNavigatedOnce == NoDuplicates(navLog)

\* C34: the ledger collectOrderIdsForYear returns is the ledger that is on
\* disk for the year when it returns (year, totalOrders and orderIds), also
\* when the page loop ran zero times.
C34_ReturnedLedgerIsOnDisk ==
    yearOrderIds # NullLedger => idsFile = LedgerToJson(yearOrderIds)

\* C35: the ledger collectOrderIdsForYear returns is complete: its total is
\* the number of its ids, whatever the pages held and whatever was stored.
C35_ReturnedLedgerComplete ==
    yearOrderIds # NullLedger => yearOrderIds.totalOrders = Len(yearOrderIds.orderIds)

-----------------------------------------------------------------------------
(* Properties of the end of the two harvests *)

\* the errors of an operation that did not return: a page-query operation
\* (navigation, wait, lookup, the login check, the launch) or a file write
OperationFailures == {"navigation", "timeout", "no .order-card", "no itemTitle link",
                      "unhandledRejection", "file system", "login", "launch"}

\* ceil(T / 10) - startPage, 0 when the start page is beyond the last page or
\* the total is no number
IterationBound ==
    IF yearTotalPages = NaN \/ yearTotalPages < startPage THEN 0
    ELSE yearTotalPages - startPage

\* C37: while every page-query operation and every file write returns, both
\* harvests run to their end: the id loop makes at most ceil(T / 10) - startPage
\* iterations, the detail loop passes every id of the ledger once, and run()
\* returns: the process ends with an error only when an operation did not
\* return, and when run() has returned every id of the ledger was visited and
\* has its record.
C37_HarvestsRunToTheEnd ==
    /\ TotalKnown => idWrites <= IterationBound
    /\ pc = "idReturn" => idWrites = IterationBound
    /\ pc = "crashed" => failure \in OperationFailures
    /\ pc = "done" =>
           /\ orderIdx = Len(yearOrderIds.orderIds) + 1
           /\ Range(yearOrderIds.orderIds) \subseteq Range(IdsOf(detailsFile))

-----------------------------------------------------------------------------
(* Properties of the result of parseDEDateToISO *)

\* the month numbers of a calendar date
MonthNumbers == {"01", "02", "03", "04", "05", "06", "07", "08", "09", "10", "11", "12"}

\* the days of a calendar date, written with two digits
TwoDigitDays == {IF d < 10 THEN <<"0">> \o Digits(d) ELSE Digits(d) : d \in 1 .. 31}

\* iso is YYYY-MM-DD: four digits, a month number and a day of two digits
WellFormedDate(iso) ==
    \E i \in DOMAIN iso :
        /\ iso[i] = "-"
        /\ PartDigits(SubSeq(iso, 1, i - 1)) = 4
        /\ i + 2 <= Len(iso)
        /\ iso[i + 1] \in MonthNumbers
        /\ iso[i + 2] = "-"
        /\ SubSeq(iso, i + 3, Len(iso)) \in TwoDigitDays

\* C38: every result of parseDEDateToISO that is not null is a calendar date
\* YYYY-MM-DD with a year of four digits, a month 01..12 and a day 01..31
\* of two digits.
C38_ResultIsCalendarDate ==
    (pc = "returned" /\ pdIso # NullText) => WellFormedDate(pdIso)

====
